---- MODULE Spec2Model ----
(***************************************************************************)
(* Model of the bounded-concurrency annotation stages of                   *)
(* scripts/is-pydantic-making-your-model-dumber/reasoning.py and of the    *)
(* update_livebench_questions.py scripts.                                  *)
(*                                                                         *)
(* One Python process either awaits one stage call                         *)
(* (classify_reasoning_questions / replace_reasoning_questions_format) on  *)
(* an event loop, or runs the __main__ block of one of the two scripts.    *)
(***************************************************************************)
EXTENDS Integers, Sequences, FiniteSets, TLC

\* ------------------------------------------------------------------ bounds
\* Largest number of rows of a dataframe handed to a stage.
MaxN == 2
\* Largest concurrency argument of a stage call (0 .. MaxK).
MaxK == 2
\* Largest number of records of a question.jsonl file.
MaxRows == 2
\* Largest number of turns of a record.
MaxTurns == 2

\* ------------------------------------------------------- reasoning.py data
\* class FormatType(Enum): the member names.
FormatType == {"T1", "T2", "T3", "T4", "T5", "OTHER"}

\* FormatType.<name>.value: the description used in the prompts (shortened).
FormatValue(l) ==
  CASE l = "T1" -> "Bold formatting for a single phrase."
    [] l = "T2" -> "Bold formatting for a list of three words."
    [] l = "T3" -> "Bold formatting for a single integer."
    [] l = "T4" -> "Return a single digit number."
    [] l = "T5" -> "Return your answer as a single word."
    [] l = "OTHER" -> "Other formatting requirements."

\* format_mapping: the dict literal; it has the five keys the source lists.
format_mapping ==
  [l \in {"T1", "T2", "T3", "T4", "T5"} |->
     CASE l = "T1" -> "Put your answer as a single phrase (for example, sphere)."
       [] l = "T2" -> "Put your answer as a list of three words, yes or no."
       [] l = "T3" -> "Put your answer as a single integer (for example, 0)."
       [] l = "T4" -> "Return a single digit number, in the following format: N."
       [] l = "T5" -> "Return your answer as a single word, in the following format: X."]

\* A question text (row.turns_str) asking for the format l.
QuestionText(l) ==
  CASE l = "T1" -> "... in **bold** as a single phrase (for example, **sphere**)."
    [] l = "T2" -> "... in **bold** as a list of three words (**yes, no, yes**)."
    [] l = "T3" -> "... in **bold** as a single integer (for example, **0**)."
    [] l = "T4" -> "Return a single digit number, in the following format: **N**."
    [] l = "T5" -> "Return your answer as a single word: **X**."
    [] l = "OTHER" -> "Answer in your own words."

\* The formats of the questions the dataframes are drawn from: the two of the
\* end-to-end scenario and the one without a rewrite template.
SampleLabels == {"T1", "T4", "OTHER"}

\* The rows a stage can be handed: classify reads turns_str only (the
\* classification column is attached later); replace reads both columns.
Rows(f) ==
  IF f = "classify"
  THEN {[turns_str |-> QuestionText(l), classification |-> "unset"] : l \in SampleLabels}
  ELSE {[turns_str |-> QuestionText(l), classification |-> l] : l \in SampleLabels}

SeqsUpTo(S, n) == UNION {[1..m -> S] : m \in 0..n}

\* The errors instructor_client.chat.completions.create can raise.
CallErrors == {"schema-violation", "transport"}

\* user_message of the request built for a row (lines 81 and 97).  The
\* lookup format_mapping[row.classification.name] is guarded by the caller.
UserMessage(f, row) ==
  IF f = "classify"
  THEN <<"Question:", row.turns_str>>
  ELSE <<"Question:", row.turns_str,
         "Old formatting:", FormatValue(row.classification),
         "New formatting:", format_mapping[row.classification]>>

\* format_mapping[row.classification.name] raises KeyError for this row.
LookupFails(row) == row.classification \notin DOMAIN format_mapping

\* The external structured-output client, as a deterministic mock: the
\* value it returns for a request (response_model is fixed by the stage).
MockModel(f, msg) ==
  IF f = "classify"
  THEN <<"classification", CHOOSE l \in FormatType : QuestionText(l) = msg[2]>>
  ELSE <<"updated_question", msg[2], msg[6]>>

\* r.classification / r.updated_question of a response (lines 88, 104).
Field(f, val) == IF f = "classify" THEN val[2] ELSE <<val[2], val[3]>>

\* ------------------------------------------------------------------ state
VARIABLES
  fn,           \* the stage function called: "none", "classify", "replace"
  df,           \* its dataframe argument: a sequence of rows
  concurrency,  \* its concurrency argument
  sem,          \* Semaphore._value: free permits
  waiters,      \* tasks suspended in semaphore.acquire(), FIFO
  task,         \* per row: the run_model_with_instructor task
  outer,        \* the future asyncio.gather returned
  status,       \* the stage coroutine: idle, awaiting, returned, raised
  result,       \* the list it returned
  error,        \* the exception it raised
  script,       \* the script run as __main__: "none", "extras", "scripts"
  cur,          \* index in Main(script) of the function being executed
  step,         \* index in Steps of its next statement
  input,        \* the records read from its question.jsonl
  frame,        \* its dataframe (a local of the function)
  columns,      \* the columns added to the dataframe
  files,        \* the output files written, <<dataset, kind>>
  aborted       \* an AssertionError ended the process

stageVars == <<fn, df, concurrency, sem, waiters, task, outer, status, result, error>>
scriptVars == <<script, cur, step, input, frame, columns, files, aborted>>
vars == <<stageVars, scriptVars>>

NoVal == <<>>
Pending == [state |-> "pending", val |-> <<>>, exc |-> NoVal]

Tasks == DOMAIN task
InCall(i) == task[i].st \in {"calling", "hung"}
Finished(i) == task[i].st \in {"done", "failed"}

Init ==
  /\ fn = "none"
  /\ df = <<>>
  /\ concurrency = 0
  /\ sem = 0
  /\ waiters = <<>>
  /\ task = <<>>
  /\ outer = Pending
  /\ status = "idle"
  /\ result = NoVal
  /\ error = NoVal
  /\ script = "none"
  /\ cur = 0
  /\ step = 0
  /\ input = <<>>
  /\ frame = <<>>
  /\ columns = {}
  /\ files = {}
  /\ aborted = FALSE

\* ------------------------------------------------------- stage call, gather
\* classify_reasoning_questions / replace_reasoning_questions_format up to
\* their await: Semaphore(concurrency), the list comprehension that builds
\* one coroutine per row, asyncio.gather(*tasks).
Call(f, d, k) ==
  /\ status = "idle"
  /\ script = "none"
  /\ UNCHANGED scriptVars
  /\ fn' = f
  /\ df' = d
  /\ concurrency' = k
  /\ sem' = k
  /\ waiters' = <<>>
  /\ result' = NoVal
  /\ IF f = "replace" /\ \E i \in DOMAIN d : LookupFails(d[i])
     THEN /\ task' = <<>>
          /\ outer' = Pending
          /\ status' = "raised"
          /\ error' = <<"KeyError">>
     ELSE /\ task' = [i \in DOMAIN d |->
                        [st |-> "created", msg |-> UserMessage(f, d[i]), val |-> NoVal]]
          /\ outer' = IF d = <<>> THEN [state |-> "result", val |-> <<>>, exc |-> NoVal] ELSE Pending
          /\ status' = "awaiting"
          /\ error' = NoVal

\* Mutant of Locked: the permit count compared off by one.
LockedOffByOne == sem < 0 \/ waiters # <<>>

\* Semaphore.locked(): no permit can be taken right away.
Locked == sem = 0 \/ waiters # <<>>

\* First step of a task: `async with semaphore` takes a permit and issues the
\* call, or suspends in acquire().
Start(i) ==
  /\ i \in Tasks
  /\ task[i].st = "created"
  /\ IF Locked
     THEN /\ task' = [task EXCEPT ![i].st = "waiting"]
          /\ waiters' = Append(waiters, i)
          /\ sem' = sem
     ELSE /\ task' = [task EXCEPT ![i].st = "calling"]
          /\ sem' = sem - 1
          /\ waiters' = waiters
  /\ UNCHANGED <<fn, df, concurrency, outer, status, result, error, scriptVars>>

\* A suspended acquire() returns: the longest waiter takes a freed permit and
\* issues its call.
Admit(i) ==
  /\ waiters # <<>>
  /\ i = Head(waiters)
  /\ sem > 0
  /\ task' = [task EXCEPT ![i].st = "calling"]
  /\ sem' = sem - 1
  /\ waiters' = Tail(waiters)
  /\ UNCHANGED <<fn, df, concurrency, outer, status, result, error, scriptVars>>

\* Mutant of Released: the permit is given back on the success path only
\* (acquire/release written without try/finally).
ReleasedOnReturnOnly(outcome) == IF outcome = "return" THEN sem + 1 ELSE sem

\* Semaphore._value after `async with` exits with the given outcome
\* (__aexit__ releases whether or not the body raised).
Released(outcome) == sem + 1

\* Mutant of Gathered: gather(..., return_exceptions=True), exceptions are
\* collected into the result list.
GatheredReturnExceptions(t, i) ==
  IF outer.state # "pending" THEN outer
  ELSE IF \A j \in DOMAIN t : t[j].st \in {"done", "failed"}
       THEN [state |-> "result", val |-> [j \in DOMAIN t |-> t[j].val], exc |-> NoVal]
  ELSE outer

\* Mutant of Gathered: the join ends with the first child that finishes
\* (asyncio.wait(..., return_when=FIRST_COMPLETED)).
GatheredFirstCompleted(t, i) ==
  IF outer.state # "pending" THEN outer
  ELSE IF t[i].st = "failed" THEN [state |-> "exception", val |-> <<>>, exc |-> t[i].val]
  ELSE [state |-> "result", val |-> <<t[i].val>>, exc |-> NoVal]

\* Mutant of Gathered: the results are collected last argument first.
GatheredReversed(t, i) ==
  IF outer.state # "pending" THEN outer
  ELSE IF t[i].st = "failed" THEN [state |-> "exception", val |-> <<>>, exc |-> t[i].val]
  ELSE IF \A j \in DOMAIN t : t[j].st = "done"
       THEN [state |-> "result", val |-> [j \in DOMAIN t |-> t[Len(t) + 1 - j].val], exc |-> NoVal]
  ELSE outer

\* asyncio.gather's callback when child i finishes, children being t: the
\* first exception is set on the outer future at once; the result list is set
\* when every child has a result, in the order of the arguments.
Gathered(t, i) ==
  IF outer.state # "pending" THEN outer
  ELSE IF t[i].st = "failed" THEN [state |-> "exception", val |-> <<>>, exc |-> t[i].val]
  ELSE IF \A j \in DOMAIN t : t[j].st = "done"
       THEN [state |-> "result", val |-> [j \in DOMAIN t |-> t[j].val], exc |-> NoVal]
  ELSE outer

\* create() returns the response for task i's request.
Return(i) ==
  /\ i \in Tasks
  /\ task[i].st = "calling"
  /\ LET t == [task EXCEPT ![i].st = "done", ![i].val = MockModel(fn, task[i].msg)]
     IN /\ task' = t
        /\ outer' = Gathered(t, i)
  /\ sem' = Released("return")
  /\ UNCHANGED <<fn, df, concurrency, waiters, status, result, error, scriptVars>>

\* create() raises e for task i's request.
Raise(i, e) ==
  /\ i \in Tasks
  /\ task[i].st = "calling"
  /\ LET t == [task EXCEPT ![i].st = "failed", ![i].val = <<"error", e, ToString(i)>>]
     IN /\ task' = t
        /\ outer' = Gathered(t, i)
  /\ sem' = Released("raise")
  /\ UNCHANGED <<fn, df, concurrency, waiters, status, result, error, scriptVars>>

\* create() for task i's request never returns (no timeout is set).
Hang(i) ==
  /\ i \in Tasks
  /\ task[i].st = "calling"
  /\ task' = [task EXCEPT ![i].st = "hung"]
  /\ UNCHANGED <<fn, df, concurrency, sem, waiters, outer, status, result, error, scriptVars>>

\* The stage coroutine resumes from `await asyncio.gather(*tasks)` and
\* returns the list of response fields, or the exception propagates.
Resume ==
  /\ status = "awaiting"
  /\ outer.state # "pending"
  /\ IF outer.state = "result"
     THEN /\ status' = "returned"
          /\ result' = [j \in DOMAIN outer.val |-> Field(fn, outer.val[j])]
          /\ error' = error
     ELSE /\ status' = "raised"
          /\ error' = outer.exc
          /\ result' = result
  /\ UNCHANGED <<fn, df, concurrency, sem, waiters, task, outer, scriptVars>>

StageNext ==
  \/ \E f \in {"classify", "replace"} :
       \E d \in SeqsUpTo(Rows(f), MaxN) : \E k \in 0..MaxK : Call(f, d, k)
  \/ \E i \in 1..MaxN : Start(i)
  \/ \E i \in 1..MaxN : Admit(i)
  \/ \E i \in 1..MaxN : Return(i)
  \/ \E i \in 1..MaxN : \E e \in CallErrors : Raise(i, e)
  \/ \E i \in 1..MaxN : Hang(i)
  \/ Resume

\* ------------------------------------------- update_livebench_questions.py
\* The __main__ block: the processing functions in call order.
Main(s) ==
  IF s = "extras" THEN <<"reasoning", "language", "math">>
  ELSE <<"reasoning", "language">>

\* The statements of a processing function in source order: math (extras
\* only) rewrites the text before its assertion, the others assert first.
Steps(f) ==
  IF f = "math" THEN <<"load", "replace", "assert", "to_json", "to_csv">>
  ELSE <<"load", "assert", "replace", "to_json", "to_csv">>

CurFn == IF cur \in DOMAIN Main(script) THEN Main(script)[cur] ELSE "none"
Running == script # "none" /\ CurFn # "none" /\ ~aborted
At(s) == Running /\ Steps(CurFn)[step] = s

\* The records a question.jsonl can hold: the number of turns and the task.
Records(f) ==
  IF f = "math" THEN [turns : 0..MaxTurns, task : {"AMPS_Hard", "math_comp"}]
  ELSE [turns : 0..MaxTurns, task : {"other"}]

\* .query("task != 'AMPS_Hard'"), applied by process_math_questions only.
Query(f, recs) ==
  IF f = "math" THEN SelectSeq(recs, LAMBDA r : r.task # "AMPS_Hard") ELSE recs

\* df.turns.str.len().eq(1).all()
OneTurnEach(fr) == \A i \in DOMAIN fr : fr[i].turns = 1

\* The column the replacement chain assigns.
ReplacedColumn(s, f) ==
  IF s = "scripts" /\ f = "language" THEN "replaced_question" ELSE "updated_question"

\* python <script>: the first processing function is called.
RunScript(s) ==
  /\ script = "none"
  /\ status = "idle"
  /\ script' = s
  /\ cur' = 1
  /\ step' = 1
  /\ UNCHANGED <<input, frame, columns, files, aborted, stageVars>>

\* pd.read_json(...).assign(turns_str, ground_truth): math drops the
\* AMPS_Hard records first; scripts/ adds data_point_id.
Load(recs) ==
  /\ At("load")
  /\ input' = recs
  /\ frame' = Query(CurFn, recs)
  /\ columns' = {"turns_str"} \cup (IF script = "scripts" THEN {"data_point_id"} ELSE {})
  /\ step' = step + 1
  /\ UNCHANGED <<script, cur, files, aborted, stageVars>>

\* Mutant of AssertAborts: assertions compiled away (python -O).
AssertNeverAborts(ok) == FALSE

\* What the assert statement does to the process when its condition is ok.
AssertAborts(ok) == ~ok

\* assert df.turns.str.len().eq(1).all()
AssertTurns ==
  /\ At("assert")
  /\ IF AssertAborts(OneTurnEach(frame))
     THEN aborted' = TRUE /\ step' = step
     ELSE aborted' = FALSE /\ step' = step + 1
  /\ UNCHANGED <<script, cur, input, frame, columns, files, stageVars>>

\* df[...] = df.turns_str.str.replace(...)....str.strip()
Replace ==
  /\ At("replace")
  /\ columns' = columns \cup {ReplacedColumn(script, CurFn)}
  /\ step' = step + 1
  /\ UNCHANGED <<script, cur, input, frame, files, aborted, stageVars>>

\* df.to_json(<dataset>/updated_questions.jsonl, ...)
ToJson ==
  /\ At("to_json")
  /\ files' = files \cup {<<CurFn, "jsonl">>}
  /\ step' = step + 1
  /\ UNCHANGED <<script, cur, input, frame, columns, aborted, stageVars>>

\* df.to_csv(<dataset>/updated_questions.csv, ...); the function returns and
\* the next one of __main__ is called.
ToCsv ==
  /\ At("to_csv")
  /\ files' = files \cup {<<CurFn, "csv">>}
  /\ cur' = cur + 1
  /\ step' = 1
  /\ input' = <<>>
  /\ frame' = <<>>
  /\ columns' = {}
  /\ UNCHANGED <<script, aborted, stageVars>>

ScriptNext ==
  \/ \E s \in {"extras", "scripts"} : RunScript(s)
  \/ \E recs \in SeqsUpTo(Records(CurFn), MaxRows) : Load(recs)
  \/ AssertTurns
  \/ Replace
  \/ ToJson
  \/ ToCsv

Next == StageNext \/ ScriptNext

Spec == Init /\ [][Next]_vars

\* The stage on an event loop that keeps running: asyncio runs every ready
\* task (FIFO ready queue), wakes semaphore waiters in FIFO order, and a call
\* that does not hang returns or raises.
FairSpec ==
  /\ Init
  /\ [][StageNext]_vars
  /\ \A i \in 1..MaxN :
       /\ WF_vars(Start(i))
       /\ WF_vars(Admit(i))
       /\ WF_vars(Return(i) \/ \E e \in CallErrors : Raise(i, e))
  /\ WF_vars(Resume)

\* ----------------------------------------------------------------- claims
InFlight == {i \in Tasks : InCall(i)}
Outstanding == {i \in Tasks : ~Finished(i)}
Failed == {i \in Tasks : task[i].st = "failed"}
Hung == {i \in Tasks : task[i].st = "hung"}
Resolved == status \in {"returned", "raised"}

\* C1: at every moment of a stage run with concurrency bound K, at most K
\* operations have issued their external call and not yet got its result or
\* error; an operation that cannot be admitted is suspended in the gate's
\* queue.
C1_ConcurrencyBound ==
  /\ Cardinality(InFlight) <= concurrency
  /\ \A i \in Tasks : task[i].st = "waiting" <=> \E n \in DOMAIN waiters : waiters[n] = i

\* C1 witness: K >= 1 calls are in flight and a further operation waits.
C1_Witness ==
  /\ concurrency >= 1
  /\ Cardinality(InFlight) = concurrency
  /\ \E i \in Tasks : task[i].st = "waiting"

\* C2 (as claimed): building the rewrite requests never fails for a record
\* whose label is a member of FormatType.
C2_MappingTotal ==
  (fn = "replace" /\ \A i \in DOMAIN df : df[i].classification \in FormatType)
    => ~(status = "raised" /\ error = <<"KeyError">>)

\* C3: once the external call of one record has raised, the stage call
\* resolves by raising: it raises the error of a failed call and returns no
\* list, whatever the other calls did (returned, raised, still waiting, hung);
\* a failed call stays failed (it is not retried).
C3_AllOrNothing ==
  /\ [](Failed # {} /\ Resolved =>
          /\ status = "raised"
          /\ result = NoVal
          /\ \E i \in Failed : error = task[i].val)
  /\ [][\A i \in Failed : i \in Failed' /\ task'[i].val = task[i].val]_vars
  /\ (Failed # {}) ~> (status = "raised")

\* C3 witness: the stage raised after one call failed and another succeeded.
C3_Witness ==
  /\ status = "raised"
  /\ Failed # {}
  /\ \E i \in Tasks : task[i].st = "done"

\* C4 (as claimed): a resolved stage call has no operation still waiting for
\* the gate or awaiting its external call, also when a call has failed.
C4_JoinComplete == Resolved => Outstanding = {}

\* C4 (amended): a stage call that resolved while one of its operations is
\* still outstanding has raised the error of a failed call; a stage call that
\* returned has every call completed with a response.
C4_JoinUnlessFailed ==
  /\ (Resolved /\ Outstanding # {}) => (status = "raised" /\ Failed # {})
  /\ status = "returned" => \A i \in Tasks : task[i].st = "done"

\* C4 witness: the stage returned the results of two gated calls.
C4_Witness ==
  /\ status = "returned"
  /\ Cardinality(Tasks) >= 2
  /\ concurrency = 1

\* The entry a stage returns for a row under the mock model: the label of the
\* row's question, or the question with its label's canonical instruction.
Expected(f, row) ==
  IF f = "classify"
  THEN CHOOSE l \in FormatType : QuestionText(l) = row.turns_str
  ELSE <<row.turns_str, format_mapping[row.classification]>>

\* C5: a stage that returns over N records returns N entries, the i-th being
\* the response to the i-th record's request, for every admission and
\* completion order (so a record's entry does not depend on its position).
C5_OrderIndependent ==
  status = "returned" =>
    /\ Len(result) = Len(df)
    /\ \A i \in DOMAIN df : result[i] = Expected(fn, df[i])

\* C5 witness: two different records went through a gate of one permit.
C5_Witness ==
  /\ status = "returned"
  /\ Len(df) >= 2
  /\ df[1] # df[2]
  /\ concurrency = 1

\* C6: the permits taken from the gate are exactly those of the operations
\* inside their external call, and when every operation has returned or
\* raised all K permits are free.
C6_PermitsHeld ==
  /\ concurrency - sem = Cardinality(InFlight)
  /\ Outstanding = {} => sem = concurrency

\* C6 witness: every operation finished, one of them by raising.
C6_Witness ==
  /\ concurrency >= 1
  /\ Cardinality(Tasks) >= 2
  /\ Outstanding = {}
  /\ Failed # {}

\* C7 (as claimed): the script's process_reasoning_questions writes the
\* reasoning output files only after the Rewriter stage, which follows the
\* Classifier stage, has returned.
C7_PipelineOrder ==
  (script = "scripts" /\ \E k \in {"jsonl", "csv"} : <<"reasoning", k>> \in files)
    => (fn = "replace" /\ status = "returned")

\* Index of the assertion among a function's statements.
AssertAt(f) == CHOOSE n \in DOMAIN Steps(f) : Steps(f)[n] = "assert"
Loaded == script # "none" /\ CurFn # "none" /\ step > 1

\* C8 (as claimed): when a record of the dataset read has a number of turns
\* other than one, the function is stopped at its assertion: no output file of
\* this or a later dataset is written and no model call is issued.
C8_FailFast ==
  (Loaded /\ \E i \in DOMAIN input : input[i].turns # 1) =>
    /\ step <= AssertAt(CurFn)
    /\ \A j \in cur..Len(Main(script)) : \A k \in {"jsonl", "csv"} :
         <<Main(script)[j], k>> \notin files
    /\ status = "idle"

\* C8 (amended): when a record the function keeps (math drops the AMPS_Hard
\* records on loading) has a number of turns other than one, the function
\* gets no further than its assertion: no output file of this or a later
\* dataset is written and no model call is issued.
C8_FailFastKept ==
  (Loaded /\ ~OneTurnEach(frame)) =>
    /\ step <= AssertAt(CurFn)
    /\ \A j \in cur..Len(Main(script)) : \A k \in {"jsonl", "csv"} :
         <<Main(script)[j], k>> \notin files
    /\ status = "idle"

\* C8 witness: the second function of a run aborted at its assertion after
\* the first one wrote its files.
C8_Witness ==
  /\ aborted
  /\ cur = 2
  /\ ~OneTurnEach(frame)
  /\ <<"reasoning", "csv">> \in files

\* C9 (as claimed): while the call of one record never returns, the stage
\* call neither returns nor raises.
C9_HangStalls == Hung # {} => status = "awaiting"

\* C9 (amended): while the call of one record never returns, the stage call
\* never returns a result list, and raises only the error of another record's
\* failed call.
C9_HangNeverReturns ==
  Hung # {} =>
    /\ status # "returned"
    /\ status = "raised" => \E j \in Failed : error = task[j].val

\* C9 witness: one call hangs, every other has returned, the stage waits.
C9_Witness ==
  /\ status = "awaiting"
  /\ Cardinality(Tasks) >= 2
  /\ \E i \in Tasks :
       /\ task[i].st = "hung"
       /\ \A j \in Tasks \ {i} : task[j].st = "done"

Admitted(i) == i \in Tasks /\ task[i].st \notin {"created", "waiting"}

\* C10 (as claimed, for the Classifier): with K = 0 a stage call never
\* resolves, whatever the number of records.
C10_ZeroNeverResolves ==
  (fn = "classify" /\ concurrency = 0) => ~Resolved

\* C10 (amended): with K >= 1, unless some issued call hangs, every submitted
\* operation is eventually admitted and the stage call eventually resolves;
\* with K = 0 no operation is ever admitted and a stage call that submitted at
\* least one operation never resolves.
C10_Termination ==
  /\ \A i \in 1..MaxN :
       (i \in Tasks /\ concurrency >= 1) ~> (Admitted(i) \/ Hung # {})
  /\ (status = "awaiting" /\ concurrency >= 1) ~> (Resolved \/ Hung # {})
  /\ [](concurrency = 0 =>
          /\ \A i \in Tasks : ~Admitted(i)
          /\ Tasks # {} => ~Resolved)

\* C10 witness: with one permit, the last of two operations was admitted and
\* the stage resolved.
C10_Witness ==
  /\ concurrency = 1
  /\ Cardinality(Tasks) >= 2
  /\ \A i \in Tasks : Admitted(i)
  /\ Hung = {}
  /\ Resolved

====
